---- MODULE Spec2Model ----
(***************************************************************************)
(* Model of the task progress/status routes (server/src/routes/taskRoutes) *)
(* and of the session ledger (server/src/models/UserLog.js).               *)
(*                                                                         *)
(* A route handler is split at its awaits: the code between two awaits     *)
(* runs without interruption on the Node event loop, and every database    *)
(* call (findOne, save, updateMany, findOneAndDelete) is one atomic step   *)
(* of the store.  Handlers in flight are held in request slots.            *)
(***************************************************************************)
EXTENDS Integers, FiniteSets, Sequences, TLC

(***************************************************************************)
(* Bounds                                                                  *)
(***************************************************************************)
\* progress values are counted in units of 1/Resolution percent, so that
\* 60.5 is a value: Pct(k) is k percent
Resolution == 2
\* task documents ever created
MaxTasks == 2

Pct(k) == k * Resolution
IsInteger(x) == x % Resolution = 0

\* request slots: two handlers can be in flight at once
TaskReqs == {"r1", "r2"}
\* the slot used when requests are served one at a time
OneAtATime == {"r1"}
Users == {"u1", "u2"}

(***************************************************************************)
(* JavaScript values carried by a request body                             *)
(***************************************************************************)
Undefined == [t |-> "undefined"]
Null == [t |-> "null"]
Num(x) == [t |-> "num", v |-> x]
Str(s) == [t |-> "str", s |-> s]

\* ToNumber of the values a progress field is given here: null is 0
ToNumber(x) == IF x.t = "num" THEN x.v ELSE 0

\* progress < 0, progress > 100 (relational comparison converts to number;
\* a comparison with undefined is false)
JsLess(x, k) == x.t # "undefined" /\ ToNumber(x) < k
JsGreater(x, k) == x.t # "undefined" /\ ToNumber(x) > k

MathMax(a, b) == IF a > b THEN a ELSE b
MathMin(a, b) == IF a < b THEN a ELSE b

\* Math.min(Math.max(progress, 0), 100)
ClampProgress(x) == MathMin(MathMax(ToNumber(x), Pct(0)), Pct(100))

\* !title, progress || 0 : undefined, null, "" and 0 are falsy
Falsy(x) ==
  \/ x.t \in {"undefined", "null"}
  \/ x.t = "str" /\ x.s = ""
  \/ x.t = "num" /\ x.v = 0

\* String.prototype.trim on the strings used here
Trim(s) == CASE s = " a " -> "a"
             [] s = " b " -> "b"
             [] OTHER -> s

(***************************************************************************)
(* Request inputs                                                          *)
(***************************************************************************)
ProgressInputs ==
  {Undefined, Null} \cup
  {Num(x) : x \in {Pct(0) - Resolution, Pct(0), Pct(60), Pct(60) + 1, Pct(100), Pct(150)}}

TitleInputs == {Undefined, Str(""), Str(" a ")}
PriorityInputs == {Undefined, Str("medium")}

\* the bodies of PUT /api/tasks/:id: no field, one field, or status and
\* progress together
UpdateBody(title, status, priority, dueDate, progress) ==
  [title |-> title, description |-> Undefined, status |-> status,
   priority |-> priority, dueDate |-> dueDate, progress |-> progress]

StatusInputs == {Str("complete"), Str("incomplete"), Str("done")}

UpdateInputs ==
  {UpdateBody(Undefined, Undefined, Undefined, Undefined, Undefined)}
  \cup {UpdateBody(t, Undefined, Undefined, Undefined, Undefined) :
          t \in {Null, Str(" a ")}}
  \cup {UpdateBody(Undefined, s, Undefined, Undefined, Undefined) :
          s \in StatusInputs}
  \cup {UpdateBody(Undefined, Undefined, p, Undefined, Undefined) :
          p \in {Str("medium")}}
  \cup {UpdateBody(Undefined, Undefined, Undefined, d, Undefined) :
          d \in {Null}}
  \cup {UpdateBody(Undefined, Undefined, Undefined, Undefined, g) :
          g \in ProgressInputs \ {Undefined}}
  \cup {UpdateBody(Undefined, Str("complete"), Undefined, Undefined, g) :
          g \in {Num(Pct(60)), Num(Pct(100))}}

(***************************************************************************)
(* State                                                                   *)
(***************************************************************************)
VARIABLES
  tasks,       \* the tasks collection: _id -> document
  nextTaskId,  \* next _id the store hands out
  treq,        \* task route handlers: slot -> position, request, loaded doc
  tasks0       \* the tasks collection when the handlers in flight were issued

VARIABLES
  logs,        \* the userlogs collection: _id -> document
  nextLogId,   \* next _id the store hands out
  nextJti,     \* next token identifier (jti) the login route issues
  now,         \* the server clock, in ms
  lreq,        \* createLogoutLog calls: slot -> position, arguments, loaded doc
  ares         \* the last request of the admin log routes and its response

VARIABLES
  userPage,    \* the user page: its tasks, the debounce timeout, its flags
  api          \* the calls of the page to the task API, and what they reach

taskVars == <<tasks, nextTaskId, treq, tasks0>>
ledgerVars == <<logs, nextLogId, nextJti, now, lreq, ares>>
pageVars == <<userPage, api>>
vars ==
  <<tasks, nextTaskId, treq, tasks0, logs, nextLogId, nextJti, now, lreq, ares,
    userPage, api>>

TaskIds == 1..MaxTasks

IdleTaskReq ==
  [pc |-> "idle", op |-> "none", user |-> "u1", id |-> 0,
   body |-> Undefined, doc |-> Undefined, code |-> 0]

\* the task validation without the range and integer checks of progress
TaskSchemaValid_NoProgressCheck(d) ==
  /\ d.status \in {"incomplete", "complete"}
  /\ d.priority \in {"low", "medium", "high"}

\* document validation run by save(): the Task schema
TaskSchemaValid(d) ==
  /\ IsInteger(d.progress) /\ d.progress >= Pct(0) /\ d.progress <= Pct(100)
  /\ d.status \in {"incomplete", "complete"}
  /\ d.priority \in {"low", "medium", "high"}

\* save() of a loaded document sends only the paths whose value was changed
SaveModified(stored, loaded, edited) ==
  [f \in DOMAIN stored |->
     IF edited[f] # loaded[f] THEN edited[f] ELSE stored[f]]

InitTasks ==
  /\ tasks = <<>>
  /\ nextTaskId = 1
  /\ treq = [r \in TaskReqs |-> IdleTaskReq]
  /\ tasks0 = <<>>

(***************************************************************************)
(* POST /api/tasks                                                         *)
(***************************************************************************)
NewTask(user, title, description, priority, dueDate, progress) ==
  [userId |-> user,
   title |-> Trim(title.s),
   description |-> Trim(description.s),
   priority |-> IF Falsy(priority) THEN "medium" ELSE priority.s,
   dueDate |-> IF Falsy(dueDate) THEN Null ELSE dueDate,
   progress |-> IF Falsy(progress) THEN Pct(0) ELSE ToNumber(progress),
   status |-> "incomplete"]

CreateTask(r, user, title, priority, progress) ==
  /\ treq[r].pc = "idle"
  /\ nextTaskId <= MaxTasks
  /\ LET body == [title |-> title, description |-> Str(" b "),
                  priority |-> priority, dueDate |-> Undefined,
                  progress |-> progress]
         base == [IdleTaskReq EXCEPT !.pc = "done", !.op = "create",
                                     !.user = user, !.body = body]
     IN IF Falsy(title) \/ Falsy(body.description)
        THEN /\ treq' = [treq EXCEPT ![r] = [base EXCEPT !.code = 400]]
             /\ UNCHANGED <<tasks, nextTaskId>>
        ELSE LET d == NewTask(user, title, body.description, priority,
                                 body.dueDate, progress)
             IN IF TaskSchemaValid(d)
                THEN /\ tasks' = (nextTaskId :> d) @@ tasks
                     /\ nextTaskId' = nextTaskId + 1
                     /\ treq' = [treq EXCEPT ![r] =
                                   [base EXCEPT !.code = 201, !.id = nextTaskId]]
                ELSE /\ treq' = [treq EXCEPT ![r] = [base EXCEPT !.code = 500]]
                     /\ UNCHANGED <<tasks, nextTaskId>>
  /\ UNCHANGED tasks0
  /\ UNCHANGED <<ledgerVars, pageVars>>

(***************************************************************************)
(* PATCH /api/tasks/:id/progress                                           *)
(***************************************************************************)
\* the validation of the request body
ProgressRejected(progress) ==
  progress.t = "undefined" \/ JsLess(progress, Pct(0)) \/ JsGreater(progress, Pct(100))

\* the status the handler leaves in the loaded document
DeriveStatus(progress, status) ==
  IF progress = Pct(100) THEN "complete"
  ELSE IF progress > Pct(0) /\ status = "complete" THEN "incomplete"
  ELSE status

\* the loaded document after the handler's assignments
ProgressEdit(doc, progress) ==
  [doc EXCEPT !.progress = ClampProgress(progress),
              !.status = DeriveStatus(ClampProgress(progress), doc.status)]

\* the query without userId: req.user.userId
FindTask_AnyOwner(id, user) == id \in DOMAIN tasks

\* findOne({_id, userId}) of the task routes
FindTask(id, user) == id \in DOMAIN tasks /\ tasks[id].userId = user

\* validation, then findOne
ProgressBegin(r, user, id, progress) ==
  /\ treq[r].pc = "idle"
  /\ LET base == [IdleTaskReq EXCEPT !.op = "progress", !.user = user,
                                     !.id = id, !.body = [progress |-> progress]]
     IN treq' = [treq EXCEPT ![r] =
          IF ProgressRejected(progress)
          THEN [base EXCEPT !.pc = "done", !.code = 400]
          ELSE IF FindTask(id, user)
          THEN [base EXCEPT !.pc = "loaded", !.doc = tasks[id]]
          ELSE [base EXCEPT !.pc = "done", !.code = 404]]
  /\ UNCHANGED <<tasks, nextTaskId, tasks0>>
  /\ UNCHANGED <<ledgerVars, pageVars>>

\* save() of the edited document: validation, then the update of the stored
\* document; a failure is answered with 500
SaveTask(r, edited) ==
  LET id == treq[r].id
  IN IF id \in DOMAIN tasks /\ TaskSchemaValid(edited)
     THEN /\ tasks' = [tasks EXCEPT ![id] =
                         SaveModified(tasks[id], treq[r].doc, edited)]
          /\ treq' = [treq EXCEPT ![r].pc = "done", ![r].code = 200,
                                  ![r].doc = Undefined]
     ELSE /\ treq' = [treq EXCEPT ![r].pc = "done", ![r].code = 500,
                                  ![r].doc = Undefined]
          /\ UNCHANGED tasks

\* the assignments to the loaded document, then save()
ProgressSave(r) ==
  /\ treq[r].pc = "loaded"
  /\ treq[r].op = "progress"
  /\ SaveTask(r, ProgressEdit(treq[r].doc, treq[r].body.progress))
  /\ UNCHANGED <<nextTaskId, tasks0>>
  /\ UNCHANGED <<ledgerVars, pageVars>>

(***************************************************************************)
(* GET /api/tasks/:id                                                      *)
(***************************************************************************)
ReadTask(r, user, id) ==
  /\ treq[r].pc = "idle"
  /\ LET base == [IdleTaskReq EXCEPT !.pc = "done", !.op = "read",
                                     !.user = user, !.id = id]
     IN treq' = [treq EXCEPT ![r] =
          IF FindTask(id, user)
          THEN [base EXCEPT !.code = 200]
          ELSE [base EXCEPT !.code = 404]]
  /\ UNCHANGED <<tasks, nextTaskId, tasks0>>
  /\ UNCHANGED <<ledgerVars, pageVars>>

(***************************************************************************)
(* PUT /api/tasks/:id                                                      *)
(***************************************************************************)
\* title.trim(), description.trim() of a value that is not a string throws
UpdateThrows(body) ==
  \/ body.title.t \notin {"undefined", "str"}
  \/ body.description.t \notin {"undefined", "str"}

\* the loaded document after the handler's assignments
UpdateEdit(doc, body) ==
  [doc EXCEPT
     !.title = IF body.title # Undefined THEN Trim(body.title.s) ELSE @,
     !.description =
        IF body.description # Undefined THEN Trim(body.description.s) ELSE @,
     !.status = IF body.status # Undefined THEN body.status.s ELSE @,
     !.priority = IF body.priority # Undefined THEN body.priority.s ELSE @,
     !.dueDate = IF body.dueDate # Undefined
                 THEN (IF Falsy(body.dueDate) THEN Null ELSE body.dueDate)
                 ELSE @,
     !.progress = IF body.progress # Undefined
                  THEN ClampProgress(body.progress) ELSE @]

\* findOne
UpdateBegin(r, user, id, body) ==
  /\ treq[r].pc = "idle"
  /\ LET base == [IdleTaskReq EXCEPT !.op = "update", !.user = user, !.id = id]
     IN treq' = [treq EXCEPT ![r] =
          IF FindTask(id, user)
          THEN [base EXCEPT !.pc = "loaded", !.body = body, !.doc = tasks[id]]
          ELSE [base EXCEPT !.pc = "done", !.code = 404]]
  /\ UNCHANGED <<tasks, nextTaskId, tasks0>>
  /\ UNCHANGED <<ledgerVars, pageVars>>

\* the assignments to the loaded document, then save()
UpdateSave(r) ==
  /\ treq[r].pc = "loaded"
  /\ treq[r].op = "update"
  /\ LET id == treq[r].id
         body == treq[r].body
         answer(code) == [treq EXCEPT ![r].pc = "done", ![r].code = code,
                                      ![r].body = Undefined, ![r].doc = Undefined]
     IN IF /\ ~UpdateThrows(body)
           /\ id \in DOMAIN tasks
           /\ TaskSchemaValid(UpdateEdit(treq[r].doc, body))
        THEN /\ tasks' = [tasks EXCEPT ![id] =
                            SaveModified(tasks[id], treq[r].doc,
                                         UpdateEdit(treq[r].doc, body))]
             /\ treq' = answer(200)
        ELSE /\ treq' = answer(500)
             /\ UNCHANGED tasks
  /\ UNCHANGED <<nextTaskId, tasks0>>
  /\ UNCHANGED <<ledgerVars, pageVars>>

(***************************************************************************)
(* PATCH /api/tasks/:id/status                                             *)
(***************************************************************************)
\* the toggle that also resyncs progress with the new status
ToggleEdit_ResyncProgress(doc) ==
  [doc EXCEPT !.status = IF doc.status = "complete" THEN "incomplete"
                         ELSE "complete",
              !.progress = IF doc.status = "complete" THEN Pct(0) ELSE Pct(100)]

ToggleEdit(doc) ==
  [doc EXCEPT !.status = IF doc.status = "complete" THEN "incomplete"
                         ELSE "complete"]

ToggleBegin(r, user, id) ==
  /\ treq[r].pc = "idle"
  /\ LET base == [IdleTaskReq EXCEPT !.op = "toggle", !.user = user, !.id = id]
     IN treq' = [treq EXCEPT ![r] =
          IF FindTask(id, user)
          THEN [base EXCEPT !.pc = "loaded", !.doc = tasks[id]]
          ELSE [base EXCEPT !.pc = "done", !.code = 404]]
  /\ UNCHANGED <<tasks, nextTaskId, tasks0>>
  /\ UNCHANGED <<ledgerVars, pageVars>>

ToggleSave(r) ==
  /\ treq[r].pc = "loaded"
  /\ treq[r].op = "toggle"
  /\ SaveTask(r, ToggleEdit(treq[r].doc))
  /\ UNCHANGED <<nextTaskId, tasks0>>
  /\ UNCHANGED <<ledgerVars, pageVars>>

(***************************************************************************)
(* DELETE /api/tasks/:id                                                   *)
(***************************************************************************)
DeleteTask(r, user, id) ==
  /\ treq[r].pc = "idle"
  /\ LET base == [IdleTaskReq EXCEPT !.pc = "done", !.op = "delete",
                                     !.user = user, !.id = id]
     IN IF FindTask(id, user)
        THEN /\ tasks' = [i \in DOMAIN tasks \ {id} |-> tasks[i]]
             /\ treq' = [treq EXCEPT ![r] = [base EXCEPT !.code = 200]]
        ELSE /\ treq' = [treq EXCEPT ![r] = [base EXCEPT !.code = 404]]
             /\ UNCHANGED tasks
  /\ UNCHANGED <<nextTaskId, tasks0>>
  /\ UNCHANGED <<ledgerVars, pageVars>>

\* the response has been sent; the slot takes the next request
TaskRespond(r) ==
  /\ treq[r].pc = "done"
  /\ treq' = [treq EXCEPT ![r] = IdleTaskReq]
  /\ UNCHANGED <<tasks, nextTaskId, tasks0>>
  /\ UNCHANGED <<ledgerVars, pageVars>>

(***************************************************************************)
(* The session ledger: server/src/models/UserLog.js                        *)
(***************************************************************************)
\* entries ever created
MaxLogs == 2
\* the clock runs over 0 .. MaxTicks ticks of a minute and a half
MaxTicks == 1

MsPerMinute == 60000
TickMs == MsPerMinute + MsPerMinute \div 2
Times == {k * TickMs : k \in 0..MaxTicks}

LogIds == 1..MaxLogs
Jtis == 1..MaxLogs
LogReqs == {"r1", "r2"}

Date(ms) == [t |-> "date", ms |-> ms]

\* Math.round(a / b) for b > 0: the nearest integer, a half rounded up
MathRound(a, b) == (2 * a + b) \div (2 * b)

\* the verified principals handed to the ledger (userData)
Principals ==
  {[userId |-> "u1", fullName |-> Str("Ann"), email |-> "ann@x.io", role |-> "user"],
   [userId |-> "u2", fullName |-> Undefined, email |-> "bob@x.io", role |-> "admin"]}

\* userData.email.split('@')[0]
EmailLocalPart(email) == CASE email = "ann@x.io" -> "ann"
                           [] email = "bob@x.io" -> "bob"
                           [] OTHER -> email

IdleLogReq ==
  [pc |-> "idle", userId |-> "u1", jti |-> 0, id |-> 0, doc |-> Undefined,
   result |-> "none"]

\* a response of the admin log routes: the status code and, from the bulk
\* delete, result.deletedCount
Response(op, code, deletedCount) ==
  [op |-> op, code |-> code, deletedCount |-> deletedCount]

NoResponse == Response("none", 0, 0)

InitLedger ==
  /\ logs = <<>>
  /\ nextLogId = 1
  /\ nextJti = 1
  /\ now = 0
  /\ lreq = [r \in LogReqs |-> IdleLogReq]
  /\ ares = NoResponse

\* new Date() is the wall clock: it advances, and it can be set back
Tick ==
  /\ now + TickMs \in Times
  /\ now' = now + TickMs
  /\ UNCHANGED <<logs, nextLogId, nextJti, lreq, ares>>
  /\ UNCHANGED <<taskVars, pageVars>>

ClockSetBack(t) ==
  /\ t < now
  /\ now' = t
  /\ UNCHANGED <<logs, nextLogId, nextJti, lreq, ares>>
  /\ UNCHANGED <<taskVars, pageVars>>

\* createLoginLog without the token identifier: every entry stores the same
NewLoginLog_NoJti(userData, ipAddress, userAgent, jwtTokenId) ==
  [userId |-> userData.userId,
   userName |-> IF Falsy(userData.fullName) THEN EmailLocalPart(userData.email)
                ELSE userData.fullName.s,
   email |-> userData.email,
   role |-> userData.role,
   action |-> "login",
   loginTime |-> Date(now),
   logoutTime |-> Null,
   jwtTokenId |-> 0,
   ipAddress |-> ipAddress,
   userAgent |-> userAgent,
   sessionDuration |-> Null,
   status |-> "active",
   createdAt |-> Date(now)]

\* the document createLoginLog creates
NewLoginLog(userData, ipAddress, userAgent, jwtTokenId) ==
  [userId |-> userData.userId,
   userName |-> IF Falsy(userData.fullName) THEN EmailLocalPart(userData.email)
                ELSE userData.fullName.s,
   email |-> userData.email,
   role |-> userData.role,
   action |-> "login",
   loginTime |-> Date(now),
   logoutTime |-> Null,
   jwtTokenId |-> jwtTokenId,
   ipAddress |-> ipAddress,
   userAgent |-> userAgent,
   sessionDuration |-> Null,
   status |-> "active",
   createdAt |-> Date(now)]

\* createLoginLog: this.create({...})
CreateLoginLog(userData, ipAddress, userAgent, jwtTokenId) ==
  /\ nextLogId <= MaxLogs
  /\ logs' = (nextLogId :> NewLoginLog(userData, ipAddress, userAgent, jwtTokenId))
             @@ logs
  /\ nextLogId' = nextLogId + 1

\* the login route: it issues a token, whose identifier is unique to the
\* issuance, and records the login
Login(userData) ==
  /\ CreateLoginLog(userData, "ip", "ua", nextJti)
  /\ nextJti' = nextJti + 1
  /\ UNCHANGED <<now, lreq, ares>>
  /\ UNCHANGED <<taskVars, pageVars>>

\* the filter without status: 'active'
ActiveLogin_AnyStatus(e, userId, jwtTokenId) ==
  /\ e.userId = userId
  /\ e.jwtTokenId = jwtTokenId
  /\ e.action = "login"

\* the filter without the jwtTokenId
ActiveLogin_AnyCredential(e, userId, jwtTokenId) ==
  /\ e.userId = userId
  /\ e.action = "login"
  /\ e.status = "active"

\* the filter of createLogoutLog's findOne
ActiveLogin(e, userId, jwtTokenId) ==
  /\ e.userId = userId
  /\ e.jwtTokenId = jwtTokenId
  /\ e.action = "login"
  /\ e.status = "active"

\* findOne(...).sort({createdAt: -1}): the entries the query can return
FindActiveLogin(userId, jwtTokenId) ==
  LET found == {i \in DOMAIN logs : ActiveLogin(logs[i], userId, jwtTokenId)}
  IN {i \in found : \A j \in found : logs[j].createdAt.ms <= logs[i].createdAt.ms}

\* createLogoutLog up to the findOne
LogoutFind(r, userId, jwtTokenId) ==
  /\ lreq[r].pc = "idle"
  /\ LET base == [IdleLogReq EXCEPT !.userId = userId, !.jti = jwtTokenId]
     IN IF FindActiveLogin(userId, jwtTokenId) = {}
        THEN lreq' = [lreq EXCEPT ![r] =
                        [base EXCEPT !.pc = "done", !.result = "null"]]
        ELSE \E i \in FindActiveLogin(userId, jwtTokenId) :
                lreq' = [lreq EXCEPT ![r] =
                           [base EXCEPT !.pc = "loaded", !.id = i, !.doc = logs[i]]]
  /\ UNCHANGED <<logs, nextLogId, nextJti, now, ares>>
  /\ UNCHANGED <<taskVars, pageVars>>

\* the assignments without loginLog.logoutTime = logoutTime
LogoutEdit_NoLogoutTime(loginLog) ==
  [loginLog EXCEPT
     !.sessionDuration = Num(MathRound(now - loginLog.loginTime.ms, MsPerMinute)),
     !.status = "logged_out"]

\* the assignments createLogoutLog makes to the login log it found
LogoutEdit(loginLog) ==
  [loginLog EXCEPT
     !.logoutTime = Date(now),
     !.sessionDuration = Num(MathRound(now - loginLog.loginTime.ms, MsPerMinute)),
     !.status = "logged_out"]

\* a save() that writes the whole document back, stored or not
LogoutSave_Upsert(r) ==
  /\ lreq[r].pc = "loaded"
  /\ logs' = (lreq[r].id :> LogoutEdit(lreq[r].doc)) @@ logs
  /\ lreq' = [lreq EXCEPT ![r].pc = "done", ![r].result = "doc",
                          ![r].doc = Undefined]
  /\ UNCHANGED <<nextLogId, nextJti, now, ares>>
  /\ UNCHANGED <<taskVars, pageVars>>

\* createLogoutLog from the assignments on: save() and return
LogoutSave(r) ==
  /\ lreq[r].pc = "loaded"
  /\ LET id == lreq[r].id
     IN IF id \in DOMAIN logs
        THEN /\ logs' = [logs EXCEPT ![id] =
                           SaveModified(logs[id], lreq[r].doc, LogoutEdit(lreq[r].doc))]
             /\ lreq' = [lreq EXCEPT ![r].pc = "done", ![r].result = "doc",
                                     ![r].doc = Undefined]
        ELSE /\ lreq' = [lreq EXCEPT ![r].pc = "done", ![r].result = "error",
                                     ![r].doc = Undefined]
             /\ UNCHANGED logs
  /\ UNCHANGED <<nextLogId, nextJti, now, ares>>
  /\ UNCHANGED <<taskVars, pageVars>>

\* the caller has the result; the slot takes the next call
LogoutReturn(r) ==
  /\ lreq[r].pc = "done"
  /\ lreq' = [lreq EXCEPT ![r] = IdleLogReq]
  /\ UNCHANGED <<logs, nextLogId, nextJti, now, ares>>
  /\ UNCHANGED <<taskVars, pageVars>>

\* the update without status: 'active' in its filter
Expired_AnyStatus(e, jwtTokenId) ==
  IF e.jwtTokenId = jwtTokenId
  THEN [e EXCEPT !.status = "expired"]
  ELSE e

\* markTokenExpired: updateMany({jwtTokenId, status: 'active'}, {status: 'expired'})
Expired(e, jwtTokenId) ==
  IF e.jwtTokenId = jwtTokenId /\ e.status = "active"
  THEN [e EXCEPT !.status = "expired"]
  ELSE e

MarkTokenExpired(jwtTokenId) ==
  /\ logs' = [i \in DOMAIN logs |-> Expired(logs[i], jwtTokenId)]
  /\ UNCHANGED <<nextLogId, nextJti, now, lreq, ares>>
  /\ UNCHANGED <<taskVars, pageVars>>

\* the documents left when those in ids are removed
Remove(ids) == [i \in DOMAIN logs \ ids |-> logs[i]]

\* DELETE /api/admin/user-logs/:id : findByIdAndDelete
DeleteLog(id) ==
  /\ IF id \in DOMAIN logs
     THEN /\ logs' = Remove({id})
          /\ ares' = Response("delete", 200, 0)
     ELSE /\ ares' = Response("delete", 404, 0)
          /\ UNCHANGED logs
  /\ UNCHANGED <<nextLogId, nextJti, now, lreq>>
  /\ UNCHANGED <<taskVars, pageVars>>

(***************************************************************************)
(* DELETE /api/admin/user-logs : the bulk delete                           *)
(***************************************************************************)
\* req.body.ids: an array of ids
Array(elems) == [t |-> "array", elems |-> elems]

\* a date in a request: an ISO string, which new Date() parses
IsoString(ms) == [t |-> "iso", ms |-> ms]
NewDate(x) == Date(x.ms)

\* req.body.filters
Filters(action, role, email, startDate, endDate) ==
  [t |-> "object", action |-> action, role |-> role, email |-> email,
   startDate |-> startDate, endDate |-> endDate]

IdsInputs == {Undefined, Array({}), Array({1}), Array(LogIds)}

FiltersInputs ==
  {Undefined,
   Filters(Undefined, Undefined, Undefined, Undefined, Undefined),
   Filters(Str("login"), Undefined, Undefined, Undefined, Undefined),
   Filters(Undefined, Str("admin"), Undefined, Undefined, Undefined),
   Filters(Undefined, Undefined, Str("ANN"), Undefined, Undefined),
   Filters(Undefined, Undefined, Undefined, IsoString(TickMs), Undefined),
   Filters(Undefined, Undefined, Undefined, Undefined, IsoString(0))}

\* { $regex: pattern, $options: 'i' } on the emails and patterns used here
RegexI(email, pattern) ==
  CASE pattern = "ANN" -> email = "ann@x.io"
    [] pattern = "BOB" -> email = "bob@x.io"
    [] OTHER -> FALSE

\* let deleteQuery = {}
EmptyQuery ==
  [_id |-> Undefined, action |-> Undefined, role |-> Undefined,
   email |-> Undefined, gte |-> Undefined, lte |-> Undefined]

\* ids && Array.isArray(ids) && ids.length > 0
HasIds(ids) == ids # Undefined /\ ids.t = "array" /\ ids.elems # {}

\* the query that leaves out the role
FilterQuery_NoRole(filters) ==
  [_id |-> Undefined,
   action |-> IF Falsy(filters.action) THEN Undefined ELSE filters.action,
   role |-> Undefined,
   email |-> IF Falsy(filters.email) THEN Undefined ELSE filters.email,
   gte |-> IF Falsy(filters.startDate) THEN Undefined
           ELSE NewDate(filters.startDate),
   lte |-> IF Falsy(filters.endDate) THEN Undefined
           ELSE NewDate(filters.endDate)]

\* the query built from the filters
FilterQuery(filters) ==
  [_id |-> Undefined,
   action |-> IF Falsy(filters.action) THEN Undefined ELSE filters.action,
   role |-> IF Falsy(filters.role) THEN Undefined ELSE filters.role,
   email |-> IF Falsy(filters.email) THEN Undefined ELSE filters.email,
   gte |-> IF Falsy(filters.startDate) THEN Undefined
           ELSE NewDate(filters.startDate),
   lte |-> IF Falsy(filters.endDate) THEN Undefined
           ELSE NewDate(filters.endDate)]

\* the query without the _id condition
DeleteQuery_NoIds(ids, filters) ==
  IF HasIds(ids) THEN EmptyQuery ELSE FilterQuery(filters)

\* deleteQuery, when the request is not refused
DeleteQuery(ids, filters) ==
  IF HasIds(ids) THEN [EmptyQuery EXCEPT !._id = ids]
  ELSE FilterQuery(filters)

\* the entry with this id satisfies the query
Matches(id, q) ==
  /\ q._id # Undefined => id \in q._id.elems
  /\ q.action # Undefined => logs[id].action = q.action.s
  /\ q.role # Undefined => logs[id].role = q.role.s
  /\ q.email # Undefined => RegexI(logs[id].email, q.email.s)
  /\ q.gte # Undefined => logs[id].createdAt.ms >= q.gte.ms
  /\ q.lte # Undefined => logs[id].createdAt.ms <= q.lte.ms

\* the bulk delete request and its response
BulkResponse(ids, filters, code, deletedCount) ==
  [op |-> "bulk", ids |-> ids, filters |-> filters,
   code |-> code, deletedCount |-> deletedCount]

\* the handler that refuses a query without any condition
BulkDelete_RefuseEmptyQuery(ids, filters) ==
  /\ IF \/ ~HasIds(ids) /\ Falsy(filters)
        \/ ~HasIds(ids) /\ FilterQuery(filters) = EmptyQuery
     THEN /\ ares' = BulkResponse(ids, filters, 400, 0)
          /\ UNCHANGED logs
     ELSE LET found == {i \in DOMAIN logs : Matches(i, DeleteQuery(ids, filters))}
          IN /\ logs' = Remove(found)
             /\ ares' = BulkResponse(ids, filters, 200, Cardinality(found))
  /\ UNCHANGED <<nextLogId, nextJti, now, lreq>>
  /\ UNCHANGED <<taskVars, pageVars>>

\* the handler: the query, then deleteMany and its deletedCount
BulkDelete(ids, filters) ==
  /\ IF ~HasIds(ids) /\ Falsy(filters)
     THEN /\ ares' = BulkResponse(ids, filters, 400, 0)
          /\ UNCHANGED logs
     ELSE LET found == {i \in DOMAIN logs : Matches(i, DeleteQuery(ids, filters))}
          IN /\ logs' = Remove(found)
             /\ ares' = BulkResponse(ids, filters, 200, Cardinality(found))
  /\ UNCHANGED <<nextLogId, nextJti, now, lreq>>
  /\ UNCHANGED <<taskVars, pageVars>>

(***************************************************************************)
(* GET /api/admin/user-logs : filter, sort and page                        *)
(***************************************************************************)
\* JavaScript numbers that are not integers
Infinity == [t |-> "infinity"]
NaN == [t |-> "nan"]

\* parseInt of a number, or of the decimal strings used here
ParseInt(x) ==
  IF x.t = "num" THEN x.v
  ELSE CASE x.s = "0" -> 0
         [] x.s = "1" -> 1
         [] x.s = "2" -> 2
         [] x.s = "3" -> 3
         [] x.s = "4" -> 4
         [] x.s = "20" -> 20
         [] x.s = "100" -> 100
         [] x.s = "201" -> 201

\* Math.ceil(a / b) for a >= 0 and b >= 0
MathCeil(a, b) ==
  IF b = 0 THEN (IF a = 0 THEN NaN ELSE Infinity)
  ELSE Num((a + b - 1) \div b)

\* req.query of the list route
ListRequest(page, limit, filters, sortOrder) ==
  [page |-> page, limit |-> limit, filters |-> filters, sortOrder |-> sortOrder]

\* the query built from req.query
ListQuery(filters) ==
  [_id |-> Undefined,
   action |-> IF Falsy(filters.action) THEN Undefined ELSE filters.action,
   role |-> IF Falsy(filters.role) THEN Undefined ELSE filters.role,
   email |-> IF Falsy(filters.email) THEN Undefined ELSE filters.email,
   gte |-> IF Falsy(filters.startDate) THEN Undefined
           ELSE NewDate(filters.startDate),
   lte |-> IF Falsy(filters.endDate) THEN Undefined
           ELSE NewDate(filters.endDate)]

\* find(query).sort(sortOptions): the orders the store can return the
\* entries of S in, createdAt descending (-1) or ascending (1); entries with
\* equal createdAt come in any order
Sorted(S, direction) ==
  LET key(i) == direction * logs[i].createdAt.ms
      tied == {i \in S : \E j \in S \ {i} : key(j) = key(i)}
      breaks == {p \in [tied -> 1..Cardinality(tied)] :
                   \A i, j \in tied : i # j => p[i] # p[j]}
      ids == SelectSeq([i \in 1..(nextLogId - 1) |-> i], LAMBDA i : i \in S)
      before(p, i, j) == \/ key(i) < key(j)
                         \/ (key(i) = key(j) /\ p[i] < p[j])
  IN {SortSeq(ids, LAMBDA i, j : before(p, i, j)) : p \in breaks}

\* a page that always starts at the first entry
SkipLimit_NoSkip(order, skip, limitNum) ==
  LET last == IF limitNum = 0 \/ limitNum > Len(order) THEN Len(order)
              ELSE limitNum
  IN SubSeq(order, 1, last)

\* .skip(skip).limit(limitNum): a limit of 0 is no limit
SkipLimit(order, skip, limitNum) ==
  LET last == IF limitNum = 0 \/ skip + limitNum > Len(order) THEN Len(order)
              ELSE skip + limitNum
  IN SubSeq(order, skip + 1, last)

\* pageNum < totalPages
LessThan(a, b) ==
  CASE b.t = "num" -> a < b.v
    [] b.t = "infinity" -> TRUE
    [] OTHER -> FALSE

\* the list request and its response
ListResponse(req, data, pageNum, limitNum, totalCount) ==
  [op |-> "list", req |-> req, code |-> 200, data |-> data,
   currentPage |-> pageNum,
   totalPages |-> MathCeil(totalCount, limitNum),
   totalCount |-> totalCount,
   limit |-> limitNum,
   hasNextPage |-> LessThan(pageNum, MathCeil(totalCount, limitNum)),
   hasPrevPage |-> pageNum > 1]

\* the handler
ListLogs(page, limit, filters, sortOrder) ==
  /\ LET req == ListRequest(page, limit, filters, sortOrder)
         pageNum == ParseInt(IF req.page = Undefined THEN Num(1) ELSE req.page)
         limitNum == ParseInt(IF req.limit = Undefined THEN Num(20) ELSE req.limit)
         skip == (pageNum - 1) * limitNum
         direction == IF req.sortOrder = Undefined \/ req.sortOrder = Str("desc")
                      THEN -1 ELSE 1
         found == {i \in DOMAIN logs : Matches(i, ListQuery(req.filters))}
     IN \E order \in Sorted(found, direction) :
          ares' = ListResponse(req, SkipLimit(order, skip, limitNum),
                               pageNum, limitNum, Cardinality(found))
  /\ UNCHANGED <<logs, nextLogId, nextJti, now, lreq>>
  /\ UNCHANGED <<taskVars, pageVars>>

(***************************************************************************)
(* GET /api/admin/user-logs/stats                                          *)
(***************************************************************************)
DayMs == 24 * 60 * MsPerMinute

\* the date filter built from req.query
DateFilter(startDate, endDate) ==
  [EmptyQuery EXCEPT
     !.gte = IF Falsy(startDate) THEN Undefined ELSE NewDate(startDate),
     !.lte = IF Falsy(endDate) THEN Undefined ELSE NewDate(endDate)]

\* { createdAt: { $gte: sevenDaysAgo }, ...dateFilter }: when dateFilter
\* has a createdAt, the spread replaces the createdAt written before it
RecentQuery(dateFilter) ==
  IF dateFilter.gte # Undefined \/ dateFilter.lte # Undefined
  THEN dateFilter
  ELSE [EmptyQuery EXCEPT !.gte = Date(now - 7 * DayMs)]

RECURSIVE SumDuration(_)
SumDuration(S) ==
  IF S = {} THEN 0
  ELSE LET i == CHOOSE k \in S : TRUE
       IN logs[i].sessionDuration.v + SumDuration(S \ {i})

\* $avg of the durations that are not null and positive: null when there
\* is none, else the sum over the count
AvgDuration(S) ==
  LET timed == {i \in S : /\ logs[i].sessionDuration # Null
                           /\ logs[i].sessionDuration.v > 0}
  IN IF timed = {} THEN Null
     ELSE [t |-> "ratio", sum |-> SumDuration(timed), count |-> Cardinality(timed)]

\* a report whose totalLogouts counts the closed sessions
StatsResponse_CountClosed(startDate, endDate, found, recentActivity) ==
  [op |-> "stats", startDate |-> startDate, endDate |-> endDate, code |-> 200,
   totalLogs |-> Cardinality(found),
   totalLogins |-> Cardinality({i \in found : logs[i].action = "login"}),
   totalLogouts |-> Cardinality({i \in found : logs[i].status = "logged_out"}),
   failedLogins |-> Cardinality({i \in found : logs[i].action = "failed_login"}),
   adminLogs |-> Cardinality({i \in found : logs[i].role = "admin"}),
   userLogs |-> Cardinality({i \in found : logs[i].role = "user"}),
   averageSessionDuration |->
      IF found = {} THEN Num(0) ELSE AvgDuration(found),
   recentActivity |-> recentActivity]

\* the stats request and its response
StatsResponse(startDate, endDate, found, recentActivity) ==
  [op |-> "stats", startDate |-> startDate, endDate |-> endDate, code |-> 200,
   totalLogs |-> Cardinality(found),
   totalLogins |-> Cardinality({i \in found : logs[i].action = "login"}),
   totalLogouts |-> Cardinality({i \in found : logs[i].action = "logout"}),
   failedLogins |-> Cardinality({i \in found : logs[i].action = "failed_login"}),
   adminLogs |-> Cardinality({i \in found : logs[i].role = "admin"}),
   userLogs |-> Cardinality({i \in found : logs[i].role = "user"}),
   averageSessionDuration |->
      IF found = {} THEN Num(0) ELSE AvgDuration(found),
   recentActivity |-> recentActivity]

\* the handler
Stats(startDate, endDate) ==
  /\ LET dateFilter == DateFilter(startDate, endDate)
         found == {i \in DOMAIN logs : Matches(i, dateFilter)}
         recent == {i \in DOMAIN logs : Matches(i, RecentQuery(dateFilter))}
     IN ares' = StatsResponse(startDate, endDate, found, Cardinality(recent))
  /\ UNCHANGED <<logs, nextLogId, nextJti, now, lreq>>
  /\ UNCHANGED <<taskVars, pageVars>>

(***************************************************************************)
(* The user page: optimistic progress updates behind a debounce            *)
(***************************************************************************)
\* slider changes of the user in a run
MaxChanges == 3
\* the delay of the debounce
DebounceMs == 500
\* the time that passes between two looks at the timer
ElapseMs == DebounceMs \div 2

\* the tasks the page shows
PageTasks == 1..MaxTasks
\* e.target.value of the range input
SliderInputs == {Str("0"), Str("20"), Str("100")}

\* setTimeout(() => callback(...args), delay): the arguments and the time left
Timeout(taskId, progress, remaining) ==
  [taskId |-> taskId, progress |-> progress, remaining |-> remaining]

\* a call of taskAPI.updateTaskProgress in flight
ProgressCall(n, taskId, progress) ==
  [n |-> n, taskId |-> taskId, progress |-> progress]

\* the page after it loaded the tasks of the user, each at progress 0
InitPage ==
  /\ userPage = [tasks |-> [t \in PageTasks |-> 0],
             timeoutRef |-> Null,
             progressUpdating |-> [t \in PageTasks |-> FALSE],
             changes |-> 0]
  /\ api = [stored |-> [t \in PageTasks |-> 0],
            calls |-> 0,
            requests |-> {},
            sent |-> [t \in PageTasks |-> Undefined],
            loads |-> 0,
            loaded |-> [t \in PageTasks |-> 0]]

\* updateProgress: the optimistic update, then the debounced callback, which
\* clears the pending timeout and sets a new one with its own arguments
UpdateProgress(taskId, progress) ==
  /\ userPage.changes < MaxChanges
  /\ taskId \in DOMAIN userPage.tasks
  /\ LET progressValue == ParseInt(progress)
     IN userPage' = [userPage EXCEPT
                   !.tasks[taskId] = progressValue,
                   !.timeoutRef = Timeout(taskId, progressValue, DebounceMs),
                   !.changes = @ + 1]
  /\ UNCHANGED <<api, taskVars, ledgerVars>>

\* time passes while a timeout is pending
Elapse ==
  /\ userPage.timeoutRef # Null
  /\ userPage.timeoutRef.remaining > 0
  /\ userPage' = [userPage EXCEPT !.timeoutRef.remaining =
                              IF @ > ElapseMs THEN @ - ElapseMs ELSE 0]
  /\ UNCHANGED <<api, taskVars, ledgerVars>>

\* the timeout fires: the callback up to its await of updateTaskProgress
TimeoutFires ==
  /\ userPage.timeoutRef # Null
  /\ userPage.timeoutRef.remaining = 0
  /\ LET taskId == userPage.timeoutRef.taskId
         progress == userPage.timeoutRef.progress
     IN /\ userPage' = [userPage EXCEPT !.timeoutRef = Null,
                                !.progressUpdating[taskId] = TRUE]
        /\ api' = [api EXCEPT
                     !.calls = @ + 1,
                     !.requests = @ \cup {ProgressCall(api.calls + 1, taskId, progress)},
                     !.sent[taskId] = Num(progress)]
  /\ UNCHANGED <<taskVars, ledgerVars>>

\* the server stores the progress and answers success: the page copies the
\* status of the response, which is no part of this model, and clears the flag
ProgressSucceeds(call) ==
  /\ call \in api.requests
  /\ api' = [api EXCEPT !.requests = @ \ {call},
                        !.stored[call.taskId] = call.progress]
  /\ userPage' = [userPage EXCEPT !.progressUpdating[call.taskId] = FALSE]
  /\ UNCHANGED <<taskVars, ledgerVars>>

\* the call fails: the catch block calls loadTasks, up to its await of getTasks
ProgressFails(call) ==
  /\ call \in api.requests
  /\ api' = [api EXCEPT !.requests = @ \ {call}, !.loads = @ + 1]
  /\ userPage' = [userPage EXCEPT !.progressUpdating[call.taskId] = FALSE]
  /\ UNCHANGED <<taskVars, ledgerVars>>

\* getTasks answers: setTasks(response.data)
TasksLoaded ==
  /\ api.loads > 0
  /\ api' = [api EXCEPT !.loads = @ - 1, !.loaded = api.stored]
  /\ userPage' = [userPage EXCEPT !.tasks = api.stored]
  /\ UNCHANGED <<taskVars, ledgerVars>>

\* getTasks fails: setTasks([])
TasksNotLoaded ==
  /\ api.loads > 0
  /\ api' = [api EXCEPT !.loads = @ - 1]
  /\ userPage' = [userPage EXCEPT !.tasks = <<>>]
  /\ UNCHANGED <<taskVars, ledgerVars>>

NextPage ==
  \/ \E t \in PageTasks, v \in SliderInputs : UpdateProgress(t, v)
  \/ Elapse
  \/ TimeoutFires
  \/ \E call \in api.requests : ProgressSucceeds(call)
  \/ \E call \in api.requests : ProgressFails(call)
  \/ TasksLoaded
  \/ TasksNotLoaded

\* the ledger operations with the createLogoutLog calls of the slots rs
LedgerStep(rs) ==
  \/ Tick
  \/ \E t \in Times : ClockSetBack(t)
  \/ \E p \in Principals : Login(p)
  \/ \E r \in rs, u \in Users, j \in Jtis : LogoutFind(r, u, j)
  \/ \E r \in rs : LogoutSave(r)
  \/ \E r \in rs : LogoutReturn(r)
  \/ \E j \in Jtis : MarkTokenExpired(j)
  \/ \E i \in DOMAIN logs : DeleteLog(i)

NextLedger == LedgerStep(OneAtATime)
NextLedgerRace == LedgerStep(LogReqs)

\* the admin log routes over a ledger of login entries
NextAdmin ==
  \/ Tick
  \/ \E p \in Principals : Login(p)
  \/ \E i \in LogIds : DeleteLog(i)
  \/ \E ids \in IdsInputs, filters \in FiltersInputs : BulkDelete(ids, filters)
  \/ \E filters \in FiltersInputs \ {Undefined} :
        ListLogs(Undefined, Undefined, filters, Undefined)

(***************************************************************************)
(* Task routes, one request at a time                                      *)
(***************************************************************************)
NextTasks ==
  \/ \E r \in OneAtATime, u \in Users, t \in TitleInputs, p \in PriorityInputs,
        g \in ProgressInputs : CreateTask(r, u, t, p, g)
  \/ \E r \in OneAtATime, u \in Users, i \in TaskIds, g \in ProgressInputs :
        ProgressBegin(r, u, i, g)
  \/ \E r \in OneAtATime : ProgressSave(r)
  \/ \E r \in OneAtATime, u \in Users, i \in TaskIds : ReadTask(r, u, i)
  \/ \E r \in OneAtATime, u \in Users, i \in TaskIds, b \in UpdateInputs :
        UpdateBegin(r, u, i, b)
  \/ \E r \in OneAtATime : UpdateSave(r)
  \/ \E r \in OneAtATime, u \in Users, i \in TaskIds : ToggleBegin(r, u, i)
  \/ \E r \in OneAtATime : ToggleSave(r)
  \/ \E r \in OneAtATime, u \in Users, i \in TaskIds : DeleteTask(r, u, i)
  \/ \E r \in OneAtATime : TaskRespond(r)

Init == InitTasks /\ InitLedger /\ InitPage
Next == NextTasks
Spec == Init /\ [][Next]_vars

\* the ledger operations, one call at a time
SpecLedger == Init /\ [][NextLedger]_vars

\* the ledger operations, with two createLogoutLog calls in flight
SpecLedgerRace == Init /\ [][NextLedgerRace]_vars

\* the admin log routes
SpecAdmin == Init /\ [][NextAdmin]_vars

\* the user page
SpecPage == Init /\ [][NextPage]_vars

(***************************************************************************)
(* The report routes over a ledger of n logins, one every two hours, read  *)
(* at the time of the last one                                             *)
(***************************************************************************)
\* the largest of the ledgers that fit on a few pages
MaxCount == 45
\* the maximum page size of the report engine
MaxPageSize == 200

LedgerSizes == {0, 1, 5, MaxCount, MaxPageSize + 1}

HourMs == 60 * MsPerMinute

\* the time of the i-th login
LoginAt(i) == i * 2 * HourMs

\* the entry of the i-th login
NthEntry(i) ==
  LET userData == CHOOSE p \in Principals :
                    p.userId = (IF i % 2 = 1 THEN "u1" ELSE "u2")
  IN [NewLoginLog(userData, "ip", "ua", i) EXCEPT
        !.loginTime = Date(LoginAt(i)), !.createdAt = Date(LoginAt(i))]

InitReport ==
  /\ InitTasks
  /\ \E n \in LedgerSizes :
       /\ now = LoginAt(n)
       /\ logs = [i \in 1..n |-> NthEntry(i)]
       /\ nextLogId = n + 1
       /\ nextJti = n + 1
  /\ lreq = [r \in LogReqs |-> IdleLogReq]
  /\ ares = NoResponse
  /\ InitPage

PageInputs == {Undefined, Str("1"), Str("2"), Str("3"), Str("4")}
LimitInputs == {Undefined, Str("0"), Str("1"), Str("20"), Str("201")}
SortOrderInputs == {Undefined, Str("asc")}
ReportFilters ==
  {Filters(Undefined, Undefined, Undefined, Undefined, Undefined),
   Filters(Undefined, Str("admin"), Undefined, Undefined, Undefined)}
DateInputs == {Undefined, IsoString(0), IsoString(3 * DayMs)}

\* one request a run: both routes only read the ledger
ListReport ==
  /\ ares = NoResponse
  /\ \E page \in PageInputs, limit \in LimitInputs, filters \in ReportFilters,
        sortOrder \in SortOrderInputs :
        ListLogs(page, limit, filters, sortOrder)

StatsReport ==
  /\ ares = NoResponse
  /\ \E startDate \in DateInputs, endDate \in DateInputs :
        Stats(startDate, endDate)

NextReport == ListReport \/ StatsReport

SpecReport == InitReport /\ [][NextReport]_vars

(***************************************************************************)
(* Logins, logouts and expiries, then one stats request                    *)
(***************************************************************************)
NextStats ==
  \/ ares = NoResponse /\ Tick
  \/ ares = NoResponse /\ \E p \in Principals : Login(p)
  \/ ares = NoResponse /\ \E r \in OneAtATime, u \in Users, j \in Jtis :
                             LogoutFind(r, u, j)
  \/ ares = NoResponse /\ \E r \in OneAtATime : LogoutSave(r)
  \/ ares = NoResponse /\ \E r \in OneAtATime : LogoutReturn(r)
  \/ ares = NoResponse /\ \E j \in Jtis : MarkTokenExpired(j)
  \/ ares = NoResponse /\ Stats(Undefined, Undefined)

SpecStats == Init /\ [][NextStats]_vars

(***************************************************************************)
(* Admin deletes while createLogoutLog calls are in flight                 *)
(***************************************************************************)
RaceIds == {Undefined, Array({1}), Array(LogIds)}
RaceFilters == {Undefined, Filters(Undefined, Undefined, Undefined, Undefined, Undefined)}

NextDeleteRace ==
  \/ \E p \in Principals : Login(p)
  \/ \E r \in LogReqs, u \in Users, j \in Jtis : LogoutFind(r, u, j)
  \/ \E r \in LogReqs : LogoutSave(r)
  \/ \E r \in LogReqs : LogoutReturn(r)
  \/ \E i \in DOMAIN logs : DeleteLog(i)
  \/ \E ids \in RaceIds, filters \in RaceFilters : BulkDelete(ids, filters)

SpecDeleteRace == Init /\ [][NextDeleteRace]_vars

(***************************************************************************)
(* Two progress requests of the owner in flight on one task.  The task is  *)
(* in a state the routes above reach: any written progress, and either     *)
(* status (the toggle sets status whatever the progress).                  *)
(***************************************************************************)
RaceTask(progress, status) ==
  [userId |-> "u1", title |-> "a", description |-> "b", priority |-> "medium",
   dueDate |-> Null, progress |-> progress, status |-> status]

InitProgressRace ==
  /\ \E g \in {Pct(0), Pct(60), Pct(100)}, s \in {"incomplete", "complete"} :
        tasks = (1 :> RaceTask(g, s))
  /\ nextTaskId = 2
  /\ treq = [r \in TaskReqs |-> IdleTaskReq]
  /\ tasks0 = tasks
  /\ InitLedger
  /\ InitPage

NextProgressRace ==
  \/ \E r \in TaskReqs, g \in ProgressInputs : ProgressBegin(r, "u1", 1, g)
  \/ \E r \in TaskReqs : ProgressSave(r)

SpecProgressRace == InitProgressRace /\ [][NextProgressRace]_vars

\* two requests of the owner in flight on one task, each a status toggle or
\* a progress update
NextToggleRace ==
  \/ \E r \in TaskReqs : ToggleBegin(r, "u1", 1)
  \/ \E r \in TaskReqs : ToggleSave(r)
  \/ \E r \in TaskReqs, g \in ProgressInputs : ProgressBegin(r, "u1", 1, g)
  \/ \E r \in TaskReqs : ProgressSave(r)

SpecToggleRace == InitProgressRace /\ [][NextToggleRace]_vars

(***************************************************************************)
(* Claims about the task routes                                            *)
(***************************************************************************)
\* a request value that is an integer in [0,100]
IsProgressValue(x) ==
  x.t = "num" /\ IsInteger(x.v) /\ x.v >= Pct(0) /\ x.v <= Pct(100)

\* C1: for every integer p in [0,100], setProgress(task, p) stores
\* progress = p; status becomes complete if p = 100, incomplete if p < 100
\* and the status before the call was complete (p = 0 included), and stays
\* as it was otherwise; so afterwards status = complete iff progress = 100.
C1_SetProgressDerivesStatus ==
  [][\A r \in TaskReqs :
       (/\ ProgressSave(r)
        /\ IsProgressValue(treq[r].body.progress)
        /\ treq[r].id \in DOMAIN tasks)
       => LET id == treq[r].id
              p == treq[r].body.progress.v
          IN /\ treq'[r].code = 200
             /\ tasks'[id].progress = p
             /\ tasks'[id].status =
                  (IF p = Pct(100) THEN "complete"
                   ELSE IF tasks[id].status = "complete" THEN "incomplete"
                   ELSE tasks[id].status)
             /\ (tasks'[id].status = "complete" <=> tasks'[id].progress = Pct(100))
    ]_vars

\* C2: setProgress with a value that is not an integer in [0,100] (150, -1,
\* a fraction, a missing or non-numeric value) on a task of the caller fails
\* with InvalidProgress (status 400) and leaves every task unchanged.
C2_InvalidProgressRejected ==
  [][\A r \in TaskReqs :
       (/\ treq'[r] # treq[r]
        /\ treq'[r].op = "progress"
        /\ ~IsProgressValue(treq'[r].body.progress)
        /\ FindTask(treq'[r].id, treq'[r].user))
       => /\ tasks' = tasks
          /\ (treq'[r].pc = "done" => treq'[r].code = 400)
    ]_vars

\* the progress handler run alone on a document
RunProgress(doc, progress) ==
  IF ProgressRejected(progress) \/ ~TaskSchemaValid(ProgressEdit(doc, progress))
  THEN doc
  ELSE ProgressEdit(doc, progress)

\* C3: two concurrent setProgress calls on one task leave it, in every
\* interleaving of their read and write steps, in the state that running
\* the two calls one after the other in some order produces.
C3_ConcurrentProgressSerializable ==
  (\A r \in TaskReqs : treq[r].pc = "done")
  => LET a == treq["r1"].body.progress
         b == treq["r2"].body.progress
     IN tasks[1] \in {RunProgress(RunProgress(tasks0[1], a), b),
                      RunProgress(RunProgress(tasks0[1], b), a)}

(***************************************************************************)
(* Claims about the session ledger                                         *)
(***************************************************************************)
\* an open session of subject s under credential c
OpenSession(e, s, c) ==
  e.userId = s /\ e.jwtTokenId = c /\ e.action = "login" /\ e.status = "active"

\* the entries other than i are as they were
OthersUnchanged(i) ==
  /\ DOMAIN logs' = DOMAIN logs
  /\ \A k \in DOMAIN logs \ {i} : logs'[k] = logs[k]

\* C4: recordLogout(s, c) with a matching active login entry mutates exactly
\* the most recently created such entry in place: status logged_out,
\* logoutTime the current time, sessionDurationMinutes
\* max(0, round((logoutTime - loginTime)/60000)); no entry is created.
C4_LogoutClosesEntryInPlace ==
  [][\A r \in LogReqs :
       (/\ LogoutSave(r)
        /\ lreq[r].id \in DOMAIN logs
        /\ OpenSession(logs[lreq[r].id], lreq[r].userId, lreq[r].jti))
       => LET i == lreq[r].id
          IN /\ OthersUnchanged(i)
             /\ \A k \in DOMAIN logs :
                  OpenSession(logs[k], lreq[r].userId, lreq[r].jti)
                  => logs[k].createdAt.ms <= logs[i].createdAt.ms
             /\ logs'[i] =
                  [logs[i] EXCEPT
                     !.status = "logged_out",
                     !.logoutTime = Date(now),
                     !.sessionDuration =
                        Num(MathMax(0, MathRound(now - logs[i].loginTime.ms,
                                                 MsPerMinute)))]
    ]_vars

\* C5: recordLogout with no matching active login entry (never opened,
\* already closed, replayed) returns null, creates no entry and leaves every
\* entry unchanged, so a closed entry keeps the logoutTime and duration the
\* first logout gave it.
C5_LogoutWithoutSessionIsNoOp ==
  [][\A r \in LogReqs :
       (/\ lreq[r].pc = "idle" /\ lreq'[r].pc # "idle"
        /\ \A k \in DOMAIN logs :
             ~OpenSession(logs[k], lreq'[r].userId, lreq'[r].jti))
       => /\ lreq'[r].pc = "done"
          /\ lreq'[r].result = "null"
          /\ logs' = logs
    ]_vars

\* C5 witness: a replayed logout of a closed session has returned null
C5_Witness ==
  \E r \in LogReqs, i \in DOMAIN logs :
    /\ lreq[r].pc = "done" /\ lreq[r].result = "null"
    /\ logs[i].userId = lreq[r].userId /\ logs[i].jwtTokenId = lreq[r].jti
    /\ logs[i].status = "logged_out"
    /\ logs[i].logoutTime # Null

\* C6: recordLogout(s, c) never changes an entry of another subject or of
\* another credential: no step of the call (its find, its save) does.
C6_LogoutLeavesOtherSessions ==
  [][\A r \in LogReqs :
       (lreq'[r] # lreq[r] /\ lreq'[r].pc # "idle")
       => \A k \in DOMAIN logs :
            (logs[k].userId # lreq'[r].userId \/ logs[k].jwtTokenId # lreq'[r].jti)
            => k \in DOMAIN logs' /\ logs'[k] = logs[k]
    ]_vars

\* C6 witness: u1 held sessions under two credentials, the logout of one
\* has returned, and the other is active with no logoutTime and no duration
C6_Witness ==
  \E r \in LogReqs, i, k \in DOMAIN logs :
    /\ lreq[r].pc = "done" /\ lreq[r].result = "doc" /\ lreq[r].id = i
    /\ logs[i].userId = "u1" /\ logs[i].status = "logged_out"
    /\ logs[k].userId = "u1" /\ logs[k].jwtTokenId # logs[i].jwtTokenId
    /\ logs[k].status = "active"
    /\ logs[k].logoutTime = Null /\ logs[k].sessionDuration = Null

\* C7: concurrent ledger mutations on one session are atomic: of two
\* recordLogout calls, or a recordLogout and an expireByCredential, exactly
\* one transitions the active entry and the entry is written once; so a
\* recordLogout that writes an entry finds it still active.
C7_SessionTransitionedOnce ==
  [][\A r \in LogReqs :
       (LogoutSave(r) /\ lreq[r].id \in DOMAIN logs)
       => logs[lreq[r].id].status = "active"
    ]_vars

\* C8: once an entry has status logged_out or expired, no operation changes
\* its status, logoutTime or sessionDurationMinutes; it can only be deleted.
C8_TerminalEntriesImmutable ==
  [][\A i \in DOMAIN logs :
       (logs[i].status \in {"logged_out", "expired"} /\ i \in DOMAIN logs')
       => /\ logs'[i].status = logs[i].status
          /\ logs'[i].logoutTime = logs[i].logoutTime
          /\ logs'[i].sessionDuration = logs[i].sessionDuration
    ]_vars

\* C9: expireByCredential(c) turns every active entry of credential c to
\* expired without setting logoutTime or duration, leaves every other entry
\* unchanged, and running it again changes nothing.  (A step of the sweep
\* that changes the ledger keeps the set of ids and the logout slots; a step
\* that changes nothing satisfies the property as it stands.)
C9_ExpireByCredential ==
  [][(/\ logs' # logs
      /\ DOMAIN logs' = DOMAIN logs
      /\ lreq' = lreq)
     => \A c \in Jtis :
       MarkTokenExpired(c)
       => /\ DOMAIN logs' = DOMAIN logs
          /\ \A i \in DOMAIN logs :
               IF logs[i].jwtTokenId = c /\ logs[i].status = "active"
               THEN logs'[i] = [logs[i] EXCEPT !.status = "expired"]
               ELSE logs'[i] = logs[i]
          /\ \A i \in DOMAIN logs' :
               ~(logs'[i].jwtTokenId = c /\ logs'[i].status = "active")
          /\ [i \in DOMAIN logs' |-> Expired(logs'[i], c)] = logs'
    ]_vars

\* C9 witness: a session has been expired, with no logoutTime and no
\* duration, while a session under another credential stays active
C9_Witness ==
  \E i, k \in DOMAIN logs :
    /\ logs[i].status = "expired"
    /\ logs[i].logoutTime = Null /\ logs[i].sessionDuration = Null
    /\ logs[k].jwtTokenId # logs[i].jwtTokenId /\ logs[k].status = "active"

\* C10: for each (subjectId, credentialInstanceId) there is at most one
\* entry with action login and status active.
C10_OneActiveLoginPerCredential ==
  \A i, k \in DOMAIN logs :
    (/\ logs[i].userId = logs[k].userId
     /\ logs[i].jwtTokenId = logs[k].jwtTokenId
     /\ logs[i].action = "login" /\ logs[k].action = "login"
     /\ logs[i].status = "active" /\ logs[k].status = "active")
    => i = k

\* C10 witness: one subject holds two active sessions, one per credential
C10_Witness ==
  \E i, k \in DOMAIN logs :
    /\ i # k
    /\ logs[i].userId = logs[k].userId
    /\ logs[i].status = "active" /\ logs[k].status = "active"

\* C11 as stated: in every reachable ledger state, an entry's logoutTime is
\* non-null if and only if its status is expired or logged_out.
C11_LogoutTimeIffTerminal ==
  \A i \in DOMAIN logs :
    logs[i].logoutTime # Null <=> logs[i].status \in {"expired", "logged_out"}

\* C11 amended: in every reachable ledger state, an entry's logoutTime is
\* non-null if and only if its status is logged_out; an expired entry, like
\* an active one, has no logoutTime.
C11_LogoutTimeIffLoggedOut ==
  \A i \in DOMAIN logs :
    logs[i].logoutTime # Null <=> logs[i].status = "logged_out"

\* C11 witness: the ledger holds an expired entry without logoutTime and a
\* logged_out entry with one
C11_Witness ==
  \E i, k \in DOMAIN logs :
    /\ logs[i].status = "expired" /\ logs[i].logoutTime = Null
    /\ logs[k].status = "logged_out" /\ logs[k].logoutTime # Null

\* C12: in every reachable ledger state, every non-null
\* sessionDurationMinutes equals round((logoutTime - loginTime)/60000)
\* floored at 0 and is never negative, also when the clock read at logout is
\* earlier than the stored loginTime.
C12_DurationFlooredAtZero ==
  \A i \in DOMAIN logs :
    logs[i].sessionDuration # Null
    => /\ logs[i].logoutTime # Null
       /\ logs[i].sessionDuration.v >= 0
       /\ logs[i].sessionDuration.v =
            MathMax(0, MathRound(logs[i].logoutTime.ms - logs[i].loginTime.ms,
                                 MsPerMinute))

(***************************************************************************)
(* Claims about create, updateFields, toggleStatus and ownership           *)
(***************************************************************************)
\* status and progress agree
Consistent(d) == d.status = "complete" <=> d.progress = Pct(100)

\* the request of slot r has just been answered with success
Answered(r, op) ==
  /\ treq[r].pc # "done"
  /\ treq'[r].pc = "done"
  /\ treq'[r].op = op
  /\ treq'[r].code \in {200, 201}

\* C13: for every task, unless toggleStatus has been applied to it since
\* progress was last written, status = complete iff progress = 100.  Status
\* and progress are consistent when nothing has been written, so the claim
\* requires every operation that writes progress (create, setProgress,
\* updateFields carrying progress) to leave the task it wrote with
\* status = complete iff progress = 100.
C13_ProgressWriteResyncsStatus ==
  [][\A r \in TaskReqs :
       (\/ Answered(r, "create")
        \/ Answered(r, "progress")
        \/ Answered(r, "update") /\ treq[r].body.progress # Undefined)
       => Consistent(tasks'[treq'[r].id])
    ]_vars

\* C14: updateFields that carries a progress value treats it as setProgress
\* does: a value that is not an integer in [0,100] is rejected with
\* InvalidProgress (status 400) and nothing is stored, and an accepted value
\* is stored and sets status by the same derivation (100 forces complete;
\* below 100 from complete forces incomplete; otherwise status unchanged).
C14_UpdateProgressAsSetProgress ==
  [][\A r \in TaskReqs :
       (/\ UpdateSave(r)
        /\ treq[r].id \in DOMAIN tasks
        /\ treq[r].body.progress # Undefined
        /\ treq[r].body.status = Undefined)
       => LET id == treq[r].id
              g == treq[r].body.progress
          IN IF IsProgressValue(g)
             THEN /\ treq'[r].code = 200
                  /\ tasks'[id].progress = g.v
                  /\ tasks'[id].status =
                       (IF g.v = Pct(100) THEN "complete"
                        ELSE IF tasks[id].status = "complete" THEN "incomplete"
                        ELSE tasks[id].status)
             ELSE /\ treq'[r].code = 400
                  /\ tasks' = tasks
    ]_vars

\* C15: a task's status changes only through the progress derivation or
\* through toggleStatus: a step that changes a task's status is the save of
\* a toggleStatus, of a setProgress or of an updateFields carrying progress
\* on that task; so an updateFields without progress leaves status as it
\* was, whatever other fields it carries; and status is always incomplete
\* or complete.
C15_StatusOnlyDerivedOrToggled ==
  [][(\A i \in DOMAIN tasks \cap DOMAIN tasks' :
        tasks'[i].status # tasks[i].status
        => \E r \in TaskReqs :
             /\ treq[r].pc = "loaded"
             /\ treq[r].id = i
             /\ \/ treq[r].op \in {"toggle", "progress"}
                \/ treq[r].op = "update" /\ treq[r].body.progress # Undefined)
     /\ (\A k \in DOMAIN tasks' : tasks'[k].status \in {"incomplete", "complete"})
    ]_vars

\* C16: toggleStatus flips status from complete to incomplete or from
\* incomplete to complete and leaves progress and every other field of the
\* task, and every other task, unchanged, whatever the progress.
C16_ToggleFlipsStatusOnly ==
  [][\A r \in TaskReqs :
       (ToggleSave(r) /\ treq[r].id \in DOMAIN tasks)
       => LET id == treq[r].id
          IN /\ treq'[r].code = 200
             /\ tasks' = [tasks EXCEPT ![id].status =
                            IF tasks[id].status = "complete" THEN "incomplete"
                            ELSE "complete"]
    ]_vars

\* C16 witness: toggles have been answered that left a task complete at
\* progress 0, and a task incomplete at progress 100
C16_Witness ==
  \E r \in TaskReqs :
    /\ treq[r].pc = "done" /\ treq[r].op = "toggle" /\ treq[r].code = 200
    /\ treq[r].id \in DOMAIN tasks
    /\ \/ tasks[treq[r].id].status = "complete"
          /\ tasks[treq[r].id].progress = Pct(0)
       \/ tasks[treq[r].id].status = "incomplete"
          /\ tasks[treq[r].id].progress = Pct(100)

TaskOps == {"read", "update", "toggle", "progress", "delete"}

\* slot r has just taken a request of user on a task id that does not exist
\* or that another principal owns
ForeignRequest(r) ==
  /\ treq[r].pc = "idle"
  /\ treq'[r].pc # "idle"
  /\ treq'[r].op \in TaskOps
  /\ \/ treq'[r].id \notin DOMAIN tasks
     \/ tasks[treq'[r].id].userId # treq'[r].user

DeletedByIds(ids) ==
  /\ ares'.op = "bulk"
  /\ ares'.code = 200
  /\ ares'.deletedCount = Cardinality(ids \cap DOMAIN logs)
  /\ DOMAIN logs' = DOMAIN logs \ ids
  /\ \A k \in DOMAIN logs' : logs'[k] = logs[k]

\* a removed id stays removed, and its single delete yields NotFound
RemovedIsNotFound ==
  /\ \A i \in LogIds : (i < nextLogId /\ i \notin DOMAIN logs) => i \notin DOMAIN logs'
  /\ \A i \in LogIds :
       (DeleteLog(i) /\ i \notin DOMAIN logs)
       => ares'.code = 404 /\ logs' = logs

C20_ExactlyOneOfIdsOrFilters ==
  [][\A ids \in IdsInputs, filters \in FiltersInputs :
       (/\ BulkDelete(ids, filters)
        /\ (ids = Undefined <=> filters = Undefined))
       => ares'.code = 400 /\ logs' = logs
    ]_vars

\* a bulk delete by predicate has just been served
FilterDeleteStep ==
  /\ ares'.op = "bulk"
  /\ ares'.ids = Undefined
  /\ ares'.filters # Undefined
  /\ BulkDelete(ares'.ids, ares'.filters)

\* C21: deleteByFilter(predicate) uses the predicate semantics of
\* filterAndPage (exact action, exact role, case-insensitive email match,
\* inclusive createdAt range): it removes exactly the entries that the list
\* query with the same predicate counts, leaves all other entries
\* unchanged, and returns a deletedCount equal to that query's totalCount
\* taken immediately before.
C21_DeleteByFilterMatchesList ==
  [][FilterDeleteStep
     => LET counted == {i \in DOMAIN logs : Matches(i, ListQuery(ares'.filters))}
        IN /\ ares'.code = 200
           /\ ares'.deletedCount = Cardinality(counted)
           /\ logs' = Remove(counted)
    ]_vars

\* C21 witness: a delete by role has removed the admin's entry, answered
\* with the count 1, and left the user's entry
C21_Witness ==
  /\ ares.op = "bulk" /\ ares.code = 200 /\ ares.deletedCount = 1
  /\ ares.ids = Undefined
  /\ ares.filters =
       Filters(Undefined, Str("admin"), Undefined, Undefined, Undefined)
  /\ \E i \in DOMAIN logs : logs[i].role = "user"

\* no field of the filters object is set
NoFilterSet(filters) ==
  /\ Falsy(filters.action) /\ Falsy(filters.role) /\ Falsy(filters.email)
  /\ Falsy(filters.startDate) /\ Falsy(filters.endDate)

\* C27: a bulk delete request that carries no ids and a filters object in
\* which none of action, role, email, startDate, endDate is set (filters =
\* {}) is accepted rather than rejected, and removes every entry of the
\* ledger, including entries of sessions that are still active.
C27_EmptyFiltersDeleteAll ==
  [][(FilterDeleteStep /\ NoFilterSet(ares'.filters))
     => /\ ares'.code = 200
        /\ ares'.deletedCount = Cardinality(DOMAIN logs)
        /\ logs' = <<>>
    ]_vars

\* C27 witness: a request with filters = {} has removed the two entries of
\* the ledger (the admin routes never close a session: both were active)
C27_Witness ==
  /\ ares.op = "bulk" /\ ares.code = 200 /\ ares.deletedCount = 2
  /\ ares.ids = Undefined
  /\ NoFilterSet(ares.filters)
  /\ logs = <<>>
(***************************************************************************)
(* C22: for page >= 1 and pageSize >= 1 the list route reports             *)
(* totalPages = ceil(totalCount / pageSize), hasNextPage = (page *         *)
(* pageSize < totalCount), hasPrevPage = (page > 1), and returns           *)
(* min(pageSize, max(0, totalCount - (page - 1) * pageSize)) items, where  *)
(* totalCount is the number of entries the filter matches.                 *)
(***************************************************************************)
\* the entries of the ledger that the role filter of the request matches
Matching(req) ==
  {i \in DOMAIN logs : req.filters.role = Undefined
                          \/ Str(logs[i].role) = req.filters.role}

\* the least k with k * size >= count
CeilDiv(count, size) ==
  CHOOSE k \in 0..count : k * size >= count /\ (k = 0 \/ (k - 1) * size < count)

PageLength(count, page, size) ==
  LET rest == IF count - (page - 1) * size < 0 THEN 0
              ELSE count - (page - 1) * size
  IN IF size < rest THEN size ELSE rest

C22_PageArithmetic ==
  (ares.op = "list" /\ ares.currentPage >= 1 /\ ares.limit >= 1) =>
     LET totalCount == Cardinality(Matching(ares.req))
         page == ares.currentPage
         pageSize == ares.limit
     IN /\ ares.totalCount = totalCount
        /\ ares.totalPages = Num(CeilDiv(totalCount, pageSize))
        /\ ares.hasNextPage = (page * pageSize < totalCount)
        /\ ares.hasPrevPage = (page > 1)
        /\ Len(ares.data) = PageLength(totalCount, page, pageSize)

\* page 3 of MaxCount entries by 20: the rest of the entries, no next page
C22_Witness ==
  /\ ares.op = "list"
  /\ ares.totalCount = MaxCount
  /\ ares.limit = 20
  /\ ares.currentPage = 3
  /\ Len(ares.data) = MaxCount - 40
  /\ ares.totalPages = Num(3)
  /\ ~ares.hasNextPage
  /\ ares.hasPrevPage

(***************************************************************************)
(* C23: the list route never returns more than MaxPageSize items,          *)
(* whatever page size is asked for.                                        *)
(***************************************************************************)
C23_PageSizeBounded ==
  ares.op = "list" => Len(ares.data) <= MaxPageSize

(***************************************************************************)
(* C24: recentActivity of the stats report is the number of entries        *)
(* created in the last 7 days that also lie in the startDate/endDate range *)
(* of the request.                                                         *)
(***************************************************************************)
C24_RecentActivityInWindow ==
  ares.op = "stats" =>
     ares.recentActivity =
        Cardinality({i \in DOMAIN logs :
                       /\ logs[i].createdAt.ms >= now - 7 * DayMs
                       /\ ares.startDate # Undefined =>
                             logs[i].createdAt.ms >= ares.startDate.ms
                       /\ ares.endDate # Undefined =>
                             logs[i].createdAt.ms <= ares.endDate.ms})

(***************************************************************************)
(* C25: the stats report over a ledger in which N logins and M logouts     *)
(* were recorded has totalLogins = N and totalLogouts = M.                 *)
(***************************************************************************)
C25_LoginsAndLogoutsCounted ==
  ares.op = "stats" =>
     /\ ares.totalLogins = nextLogId - 1
     /\ ares.totalLogouts =
           Cardinality({i \in DOMAIN logs : logs[i].status = "logged_out"})

(***************************************************************************)
(* C26: every entry of the ledger has action login, whatever logins,       *)
(* logouts and expiries were recorded, and the stats report has            *)
(* totalLogouts = 0 however many sessions were closed.                     *)
(***************************************************************************)
C26_NoLogoutEntries ==
  /\ \A i \in DOMAIN logs : logs[i].action = "login"
  /\ ares.op = "stats" => ares.totalLogouts = 0

\* a report over a ledger with a closed session and an expired one
C26_Witness ==
  /\ ares.op = "stats"
  /\ ares.totalLogouts = 0
  /\ \E i \in DOMAIN logs : logs[i].status = "logged_out"
  /\ \E i \in DOMAIN logs : logs[i].status = "expired"

(***************************************************************************)
(* C29: two toggles of one task, in every interleaving of their read and   *)
(* save steps, leave the task with the status it had (two flips); a toggle *)
(* concurrent with a progress update leaves the task as one of the two     *)
(* serial orders would.                                                    *)
(***************************************************************************)
\* the two requests have been answered with 200
BothAnswered(r1, r2) ==
  /\ r1 # r2
  /\ treq[r1].pc = "done" /\ treq[r1].code = 200
  /\ treq[r2].pc = "done" /\ treq[r2].code = 200

C29_TogglesTakeEffectOnce ==
  \A r1, r2 \in TaskReqs :
     /\ (BothAnswered(r1, r2) /\ treq[r1].op = "toggle" /\ treq[r2].op = "toggle")
          => tasks[1].status = tasks0[1].status
     /\ (BothAnswered(r1, r2) /\ treq[r1].op = "toggle" /\ treq[r2].op = "progress")
          => LET g == treq[r2].body.progress
             IN tasks[1] \in {ProgressEdit(ToggleEdit(tasks0[1]), g),
                              ToggleEdit(ProgressEdit(tasks0[1], g))}

(***************************************************************************)
(* C28: a delete racing with createLogoutLog never fabricates or           *)
(* resurrects an entry: an entry that was deleted stays absent whatever    *)
(* step comes next, only a login adds an entry, a save that comes after    *)
(* the delete writes nothing, and a createLogoutLog that starts after the  *)
(* delete of the session's entry returns null.                             *)
(***************************************************************************)
\* the entries that were created and then deleted
Deleted == (1..(nextLogId - 1)) \ DOMAIN logs

C28_DeleteNeverResurrects ==
  [][/\ \A i \in DOMAIN logs : logs[i].jwtTokenId = i
     /\ \A i \in Deleted : i \notin DOMAIN logs'
     /\ \A i \in DOMAIN logs' \ DOMAIN logs :
           i = nextLogId /\ nextLogId' = nextLogId + 1
     /\ \A r \in LogReqs :
           (lreq[r].pc = "loaded" /\ lreq[r].id \in Deleted /\ lreq'[r].pc = "done")
           => logs' = logs
     /\ \A r \in LogReqs :
           (lreq[r].pc = "idle" /\ lreq'[r].pc # "idle" /\ lreq'[r].jti \in Deleted)
           => (lreq'[r].pc = "done" /\ lreq'[r].result = "null")
    ]_vars

\* the entry of session 1 was deleted between the find and the save of one
\* call, and a later call for the session has returned null
C28_Witness ==
  \E r1, r2 \in LogReqs :
     /\ 1 \in Deleted
     /\ lreq[r1].pc = "done" /\ lreq[r1].id = 1 /\ lreq[r1].result = "error"
     /\ lreq[r2].pc = "done" /\ lreq[r2].jti = 1 /\ lreq[r2].result = "null"
     /\ ares.code = 200

(***************************************************************************)
(* C30: every optimistic progress change is sent to the server or          *)
(* reverted: whenever no debounce timeout is pending, the progress the     *)
(* page shows for a task is the last one it sent for that task with        *)
(* updateTaskProgress or the one it last loaded, also when the user        *)
(* changed a second task within the delay of the first.                    *)
(***************************************************************************)
C30_ChangeSentOrReverted ==
  userPage.timeoutRef = Null =>
     \A t \in DOMAIN userPage.tasks :
        \/ Num(userPage.tasks[t]) = api.sent[t]
        \/ userPage.tasks[t] = api.loaded[t]

====
